---- MODULE Spec2Model ----
(***************************************************************************)
(* Bookstore API: the books table, the per-request database session and    *)
(* the five request handlers of app/api/books.py, with the statements each *)
(* handler sends to the store as separate steps so that requests           *)
(* interleave between a SELECT and the following COMMIT.                   *)
(***************************************************************************)
EXTENDS Integers, Sequences, FiniteSets, TLC

VARIABLES
    books,      \* the committed rows of table "books", in heap order
    nextId,     \* uuid.uuid4: the next fresh primary key
    now,        \* func.now(): the store's clock, read at INSERT
    pc,         \* where each request is in its handler
    req,        \* the request each worker is serving
    loaded,     \* the Book object the request's session holds (0 or 1 rows)
    result,     \* the response of the service call
    sess,       \* the session get_db handed to the request (0: none)
    open,       \* the sessions that are open
    nextSid     \* identity of the next Session object SessionLocal() builds

vars == <<books, nextId, now, pc, req, loaded, result, sess, open, nextSid>>

-----------------------------------------------------------------------------
(* Bounds of the model *)

MaxBooks == 2        \* books ever inserted
MaxRequests == 3     \* requests ever served

Workers == {"w1", "w2"}   \* requests in flight at once

-----------------------------------------------------------------------------
(* Values *)

None == <<>>                 \* Python None, SQL NULL
Some(v) == <<v>>

IsbnLen == 13

OK == 200
NoContent == 204
DuplicateKey == 400
NotFound == 404
ValidationError == 422
StorageFailure == 500

ISBN_A == "9780441013593"
ISBN_B == "9780000000002"
ISBN_SHORT == "978044101359"

Fields == {"title", "author", "published_year", "isbn", "price"}

\* A request body: the keys the JSON object holds and the value of each
\* (a key that is absent takes the schema's default, None).
Body(present, t, a, y, i, p) ==
    [present |-> present,
     val |-> [title |-> t, author |-> a, published_year |-> y, isbn |-> i, price |-> p]]

NoBody == Body({}, None, None, None, None, None)

CreateInputs ==
    { Body(Fields \ {"published_year"}, Some("Dune"), Some("Herbert"), None, Some(ISBN_A), Some(12)),
      Body(Fields, Some(""), Some(""), Some(1965), Some(ISBN_B), Some(9)),
      Body(Fields \ {"published_year"}, Some("Dune"), Some("Herbert"), None, Some(ISBN_SHORT), Some(12)),
      Body(Fields \ {"published_year"}, Some("Dune"), Some("Herbert"), None, None, Some(12)) }

UpdateInputs ==
    { Body({"price"}, None, None, None, None, Some(9)),
      Body({"title"}, Some("Other"), None, None, None, None),
      Body({"title"}, Some("Dune"), None, None, None, None),
      Body({"isbn"}, None, None, None, Some(ISBN_A), None),
      Body({"isbn"}, None, None, None, Some(ISBN_B), None),
      Body({"isbn"}, None, None, None, None, None),
      Body({"title"}, None, None, None, None, None),
      Body({"isbn"}, None, None, None, Some(ISBN_SHORT), None),
      Body({}, None, None, None, None, None) }

\* (skip, limit) of GET /books/
ListInputs == { <<0, 10>>, <<0, 1>>, <<0, 2>>, <<1, 1>>, <<2, 10>>, <<0 - 1, 10>> }

\* The inputs of the specification that follows the sessions: one request
\* for each way a handler ends.
FewCreateInputs ==
    { Body(Fields \ {"published_year"}, Some("Dune"), Some("Herbert"), None, Some(ISBN_A), Some(12)),
      Body(Fields \ {"published_year"}, Some("Dune"), Some("Herbert"), None, Some(ISBN_SHORT), Some(12)) }

FewUpdateInputs == { Body({"price"}, None, None, None, None, Some(9)) }

FewListInputs == { <<0, 10>> }

BookIds == 1..MaxBooks

-----------------------------------------------------------------------------
(* schemas.py *)

\* Field(..., min_length=13, max_length=13)
IsbnLengthOk(s) == Len(s) = IsbnLen

\* BookCreate: title, author, isbn, price required and not None;
\* published_year optional; isbn exactly 13 characters.
BookCreate(b) ==
    /\ {"title", "author", "isbn", "price"} \subseteq b.present
    /\ \A k \in {"title", "author", "isbn", "price"} : b.val[k] # None
    /\ IsbnLengthOk(b.val.isbn[1])

\* BookUpdate: every field Optional with default None; the length
\* constraint applies to an isbn that is a string.
BookUpdate(b) ==
    ("isbn" \in b.present /\ b.val.isbn # None) => IsbnLengthOk(b.val.isbn[1])

-----------------------------------------------------------------------------
(* models.py: the constraints the store enforces on table "books" *)

Min(a, b) == IF a < b THEN a ELSE b

Ids(tbl) == { tbl[i].id : i \in 1..Len(tbl) }

\* position of the row with primary key id, 0 when there is none
IndexOf(tbl, id) ==
    IF id \in Ids(tbl) THEN CHOOSE i \in 1..Len(tbl) : tbl[i].id = id ELSE 0

\* the columns declared without nullable=False
NullsAllowed(row) == TRUE

\* nullable=False on title, author, isbn, price
NotNullOk(row) ==
    /\ row.title # None
    /\ row.author # None
    /\ row.isbn # None
    /\ row.price # None

\* the isbn column declared without unique=True
NoUniqueConstraint(tbl, row) == TRUE

\* unique=True on isbn: no row other than the one with this id holds the isbn
UniqueOk(tbl, row) ==
    \A i \in 1..Len(tbl) : tbl[i].id # row.id => tbl[i].isbn # row.isbn

\* String(13): varchar(13) refuses longer values
LengthOk(row) == row.isbn # None => Len(row.isbn[1]) <= IsbnLen

RemoveAt(tbl, i) == SubSeq(tbl, 1, i - 1) \o SubSeq(tbl, i + 1, Len(tbl))

\* a DELETE that has lost its WHERE clause
DeleteAll(tbl, id) == <<>>

\* DELETE FROM books WHERE id = :id
DeleteRow(tbl, id) ==
    IF IndexOf(tbl, id) = 0 THEN tbl ELSE RemoveAt(tbl, IndexOf(tbl, id))

\* UPDATE books SET ... WHERE id = :id; the new row version stays in
\* place or goes to the end of the heap
ReplaceRow(tbl, row, moved) ==
    IF moved THEN Append(RemoveAt(tbl, IndexOf(tbl, row.id)), row)
    ELSE [tbl EXCEPT ![IndexOf(tbl, row.id)] = row]

-----------------------------------------------------------------------------
(* api/books.py: the queries of BookService *)

\* query(Book).filter(Book.isbn == isbn).first()
ExistingBook(tbl, isbn) ==
    LET hits == { i \in 1..Len(tbl) : tbl[i].isbn = isbn }
    IN IF hits = {} THEN None
       ELSE Some(tbl[CHOOSE i \in hits : \A j \in hits : i <= j])

\* the query without its filter: the first row of the table
AnyBook(tbl, id) == IF tbl = <<>> THEN None ELSE Some(tbl[1])

\* query(Book).filter(Book.id == book_id).first()
BookById(tbl, id) ==
    IF IndexOf(tbl, id) = 0 THEN None ELSE Some(tbl[IndexOf(tbl, id)])

\* the page taken one row too far
PageOffByOne(tbl, skip, limit) == SubSeq(tbl, skip + 1, Min(skip + limit + 1, Len(tbl)))

\* query(Book).offset(skip).limit(limit).all()
Page(tbl, skip, limit) == SubSeq(tbl, skip + 1, Min(skip + limit, Len(tbl)))

\* Book(**book.model_dump()), with the column defaults of the INSERT
NewBook(b, id, at) ==
    [id |-> id, title |-> b.val.title, author |-> b.val.author,
     published_year |-> b.val.published_year, isbn |-> b.val.isbn,
     price |-> b.val.price, created_at |-> at]

\* for key, value in book_data.model_dump(exclude_unset=True).items():
\*     setattr(book, key, value)
SetAttrs(book, b) ==
    [k \in DOMAIN book |-> IF k \in b.present THEN b.val[k] ELSE book[k]]

\* the columns the unit of work writes at flush: the attributes whose
\* value differs from the one the session loaded
Changed(old, new) == { k \in Fields : new[k] # old[k] }

\* the row the UPDATE leaves: the current row with the changed columns set
Written(cur, old, new) ==
    [k \in DOMAIN cur |-> IF k \in Changed(old, new) THEN new[k] ELSE cur[k]]

-----------------------------------------------------------------------------
(* connection.py *)

\* SessionLocal(): a new Session object
SessionLocal == nextSid

\* get_db without its finally block
LeaveOpen(o, s) == o

\* db.close()
CloseSession(o, s) == o \ {s}

-----------------------------------------------------------------------------

NoReq == [op |-> "none", book_id |-> 0, body |-> NoBody, skip |-> 0, limit |-> 0]
NoResult == [status |-> 0, detail |-> "", body |-> <<>>]

Response(status, detail, body) == [status |-> status, detail |-> detail, body |-> body]

\* line 31
IsbnExists == Response(DuplicateKey, "Book with this ISBN already exists.", <<>>)

\* create_book without its except clause
UncaughtIntegrityError == Response(StorageFailure, "", <<>>)

\* lines 38-40: except IntegrityError: rollback, HTTPException(400)
CreateIntegrityError == Response(DuplicateKey, "Failed to add book. ISBN must be unique.", <<>>)

\* lines 71, 90, 111
BookNotFound == Response(NotFound, "Book not found", <<>>)

\* update_book with the except clause of create_book
HandledAsDuplicate == Response(DuplicateKey, "Failed to add book. ISBN must be unique.", <<>>)

\* line 95: commit is not in a try block, the exception reaches the server
UpdateIntegrityError == Response(StorageFailure, "", <<>>)

\* an exception no handler catches, and a body the schema refuses
ServerError == Response(StorageFailure, "", <<>>)
Unprocessable == Response(ValidationError, "", <<>>)

InFlightCreates == Cardinality({ w \in Workers : req[w].op = "create" })

Init ==
    /\ books = <<>>
    /\ nextId = 1
    /\ now = 1
    /\ pc = [w \in Workers |-> "idle"]
    /\ req = [w \in Workers |-> NoReq]
    /\ loaded = [w \in Workers |-> None]
    /\ result = [w \in Workers |-> NoResult]
    /\ sess = [w \in Workers |-> 0]
    /\ open = {}
    /\ nextSid = 1

\* A request arrives: get_db opens its session, the body is validated
\* against the schema, and the handler is entered or the request is refused.
Begin(w, r, valid, first) ==
    /\ pc[w] = "idle"
    /\ nextSid <= MaxRequests
    /\ sess' = [sess EXCEPT ![w] = SessionLocal]
    /\ open' = open \cup {SessionLocal}
    /\ nextSid' = nextSid + 1
    /\ req' = [req EXCEPT ![w] = r]
    /\ IF valid
       THEN /\ pc' = [pc EXCEPT ![w] = first]
            /\ result' = result
       ELSE /\ pc' = [pc EXCEPT ![w] = "close"]
            /\ result' = [result EXCEPT ![w] = Unprocessable]
    /\ UNCHANGED <<books, nextId, now, loaded>>

PostBooks(w, inputs) ==
    \E b \in inputs :
        /\ nextId + InFlightCreates <= MaxBooks
        /\ Begin(w, [NoReq EXCEPT !.op = "create", !.body = b], BookCreate(b), "create_check")

GetBooks(w, inputs) ==
    \E p \in inputs :
        Begin(w, [NoReq EXCEPT !.op = "list", !.skip = p[1], !.limit = p[2]], TRUE, "list")

GetBookById(w) ==
    \E id \in BookIds :
        Begin(w, [NoReq EXCEPT !.op = "get", !.book_id = id], TRUE, "get")

PutBook(w, inputs) ==
    \E id \in BookIds, b \in inputs :
        Begin(w, [NoReq EXCEPT !.op = "update", !.book_id = id, !.body = b], BookUpdate(b), "update_select")

DeleteBook(w) ==
    \E id \in BookIds :
        Begin(w, [NoReq EXCEPT !.op = "delete", !.book_id = id], TRUE, "delete_select")

\* create_book, lines 29-33: the existence check
CreateCheck(w) ==
    /\ pc[w] = "create_check"
    /\ IF ExistingBook(books, req[w].body.val.isbn) # None
       THEN /\ result' = [result EXCEPT ![w] = IsbnExists]
            /\ pc' = [pc EXCEPT ![w] = "close"]
       ELSE /\ result' = result
            /\ pc' = [pc EXCEPT ![w] = "create_commit"]
    /\ UNCHANGED <<books, nextId, now, req, loaded, sess, open, nextSid>>

\* create_book, lines 34-42: add, commit, refresh; IntegrityError -> rollback
CreateCommit(w) ==
    /\ pc[w] = "create_commit"
    /\ LET new_book == NewBook(req[w].body, nextId, now)
       IN IF UniqueOk(books, new_book) /\ NotNullOk(new_book) /\ LengthOk(new_book)
          THEN /\ books' = Append(books, new_book)
               /\ nextId' = nextId + 1
               /\ now' = now + 1
               /\ loaded' = [loaded EXCEPT ![w] = Some(new_book)]
               /\ result' = [result EXCEPT ![w] = Response(OK, "", Some(new_book))]
          ELSE /\ loaded' = [loaded EXCEPT ![w] = None]
               /\ result' = [result EXCEPT ![w] = CreateIntegrityError]
               /\ UNCHANGED <<books, nextId, now>>
    /\ pc' = [pc EXCEPT ![w] = "close"]
    /\ UNCHANGED <<req, sess, open, nextSid>>

\* list_books, line 55
ListBooks(w) ==
    /\ pc[w] = "list"
    /\ IF req[w].skip < 0 \/ req[w].limit < 0
       THEN result' = [result EXCEPT ![w] = ServerError]
       ELSE result' = [result EXCEPT ![w] = Response(OK, "", Page(books, req[w].skip, req[w].limit))]
    /\ pc' = [pc EXCEPT ![w] = "close"]
    /\ UNCHANGED <<books, nextId, now, req, loaded, sess, open, nextSid>>

\* get_book, lines 69-72
GetBook(w) ==
    /\ pc[w] = "get"
    /\ LET book == BookById(books, req[w].book_id)
       IN IF book = None
          THEN /\ result' = [result EXCEPT ![w] = BookNotFound]
               /\ loaded' = loaded
          ELSE /\ result' = [result EXCEPT ![w] = Response(OK, "", book)]
               /\ loaded' = [loaded EXCEPT ![w] = book]
    /\ pc' = [pc EXCEPT ![w] = "close"]
    /\ UNCHANGED <<books, nextId, now, req, sess, open, nextSid>>

\* update_book, lines 88-90 and delete_book, lines 109-111: load by id
SelectById(w, here, next) ==
    /\ pc[w] = here
    /\ LET book == BookById(books, req[w].book_id)
       IN IF book = None
          THEN /\ result' = [result EXCEPT ![w] = BookNotFound]
               /\ loaded' = loaded
               /\ pc' = [pc EXCEPT ![w] = "close"]
          ELSE /\ result' = result
               /\ loaded' = [loaded EXCEPT ![w] = book]
               /\ pc' = [pc EXCEPT ![w] = next]
    /\ UNCHANGED <<books, nextId, now, req, sess, open, nextSid>>

UpdateSelect(w) == SelectById(w, "update_select", "update_commit")

\* update_book, lines 92-97: setattr, commit, refresh
UpdateCommit(w) ==
    /\ pc[w] = "update_commit"
    /\ LET old == loaded[w][1]
           new == SetAttrs(old, req[w].body)
           cur == BookById(books, old.id)
       IN IF cur = None
          THEN \* UPDATE matches no row (StaleDataError), or refresh finds none
               /\ result' = [result EXCEPT ![w] = ServerError]
               /\ UNCHANGED <<books, loaded>>
          ELSE IF Changed(old, new) = {}
          THEN \* nothing to flush: commit, then refresh reads the row
               /\ result' = [result EXCEPT ![w] = Response(OK, "", cur)]
               /\ loaded' = [loaded EXCEPT ![w] = cur]
               /\ books' = books
          ELSE LET row == Written(cur[1], old, new)
               IN IF UniqueOk(books, row) /\ NotNullOk(row) /\ LengthOk(row)
                  THEN /\ \E moved \in BOOLEAN : books' = ReplaceRow(books, row, moved)
                       /\ loaded' = [loaded EXCEPT ![w] = Some(row)]
                       /\ result' = [result EXCEPT ![w] = Response(OK, "", Some(row))]
                  ELSE \* IntegrityError is not caught
                       /\ result' = [result EXCEPT ![w] = UpdateIntegrityError]
                       /\ UNCHANGED <<books, loaded>>
    /\ pc' = [pc EXCEPT ![w] = "close"]
    /\ UNCHANGED <<nextId, now, req, sess, open, nextSid>>

DeleteSelect(w) == SelectById(w, "delete_select", "delete_commit")

\* delete_book, lines 113-114
DeleteCommit(w) ==
    /\ pc[w] = "delete_commit"
    /\ books' = DeleteRow(books, loaded[w][1].id)
    /\ loaded' = [loaded EXCEPT ![w] = None]
    /\ result' = [result EXCEPT ![w] = Response(NoContent, "", <<>>)]
    /\ pc' = [pc EXCEPT ![w] = "close"]
    /\ UNCHANGED <<nextId, now, req, sess, open, nextSid>>

\* get_db, lines 31-32: the response is sent and the session closed
Close(w) ==
    /\ pc[w] = "close"
    /\ open' = CloseSession(open, sess[w])
    /\ sess' = [sess EXCEPT ![w] = 0]
    /\ pc' = [pc EXCEPT ![w] = "idle"]
    /\ req' = [req EXCEPT ![w] = NoReq]
    /\ loaded' = [loaded EXCEPT ![w] = None]
    /\ result' = [result EXCEPT ![w] = NoResult]
    /\ UNCHANGED <<books, nextId, now, nextSid>>

Serve(w) ==
    \/ CreateCheck(w)
    \/ CreateCommit(w)
    \/ ListBooks(w)
    \/ GetBook(w)
    \/ UpdateSelect(w)
    \/ UpdateCommit(w)
    \/ DeleteSelect(w)
    \/ DeleteCommit(w)
    \/ Close(w)

Next ==
    \E w \in Workers :
        \/ PostBooks(w, CreateInputs)
        \/ GetBooks(w, ListInputs)
        \/ GetBookById(w)
        \/ PutBook(w, UpdateInputs)
        \/ DeleteBook(w)
        \/ Serve(w)

Spec == Init /\ [][Next]_vars

\* The same handlers on few inputs, every handler running to its end:
\* a worker thread that has taken a request is never starved.
FewNext ==
    \E w \in Workers :
        \/ PostBooks(w, FewCreateInputs)
        \/ GetBooks(w, FewListInputs)
        \/ GetBookById(w)
        \/ PutBook(w, FewUpdateInputs)
        \/ DeleteBook(w)
        \/ Serve(w)

FairSpec == Init /\ [][FewNext]_vars /\ \A w \in Workers : WF_vars(Serve(w))

-----------------------------------------------------------------------------
(* Properties *)

Rows(tbl) == { tbl[i] : i \in 1..Len(tbl) }

\* the rows of tbl other than the one with primary key id, in order
Others(tbl, id) ==
    LET keep(row) == row.id # id IN SelectSeq(tbl, keep)

\* worker w takes the step that leaves position at
Leaves(w, at) == pc[w] = at /\ pc'[w] # at

Holds(isbn) == \E i \in 1..Len(books) : books[i].isbn = isbn

\* C1: no two stored books have the same isbn, whatever requests ran and
\* however they interleaved.
C1_IsbnUnique ==
    \A i, j \in 1..Len(books) : i # j => books[i].isbn # books[j].isbn

\* two books are stored and an update that would have given one the isbn
\* of the other has been refused
C1_Witness ==
    /\ Len(books) = 2
    /\ \E w \in Workers :
        /\ req[w].op = "update"
        /\ pc[w] = "close"
        /\ result[w].status = StorageFailure
        /\ "isbn" \in req[w].body.present
        /\ \E i \in 1..Len(books) :
            books[i].id # req[w].book_id /\ books[i].isbn = req[w].body.val.isbn

\* C2: a create whose isbn is held by a stored book fails with DuplicateKey
\* and adds nothing, at the existence check and at the commit alike (the
\* loser of a race is rolled back); a create whose isbn is free at its
\* commit stores the book; a create never ends in a store-level failure.
C2_CreateStep(w) ==
    LET isbn == req[w].body.val.isbn
    IN /\ (Leaves(w, "create_check") /\ Holds(isbn)) =>
            /\ pc'[w] = "close"
            /\ result'[w].status = DuplicateKey
            /\ books' = books
       /\ (Leaves(w, "create_commit") /\ Holds(isbn)) =>
            /\ result'[w].status = DuplicateKey
            /\ loaded'[w] = None
            /\ books' = books
            /\ nextId' = nextId
       /\ (Leaves(w, "create_commit") /\ ~Holds(isbn)) =>
            /\ result'[w].status = OK
            /\ result'[w].body[1].isbn = isbn
            /\ books' = Append(books, result'[w].body[1])
       /\ (req'[w].op = "create" /\ pc'[w] = "close") =>
            result'[w].status \in {OK, DuplicateKey, ValidationError}

C3_GetStep(w) ==
    LET id == req[w].book_id
    IN /\ Leaves(w, "get") =>
            IF \E row \in Rows(books) : row.id = id
            THEN /\ result'[w].status = OK
                 /\ Len(result'[w].body) = 1
                 /\ result'[w].body[1] \in Rows(books)
                 /\ result'[w].body[1].id = id
            ELSE result'[w] = BookNotFound
       /\ ((Leaves(w, "create_commit") \/ Leaves(w, "update_commit")) /\ result'[w].status = OK) =>
            /\ result'[w].body[1] \in Rows(books')
            /\ \A row \in Rows(books') : row.id = result'[w].body[1].id => row = result'[w].body[1]
       /\ Leaves(w, "update_commit") => Ids(books') = Ids(books)
       /\ Leaves(w, "delete_commit") => loaded[w][1].id \notin Ids(books')
       /\ \A row \in Rows(books') : row.id < nextId'

C3_GetLastWritten == [][\A w \in Workers : C3_GetStep(w)]_vars

\* a get of a book that was created and then deleted has answered NotFound
C3_Witness ==
    \E w \in Workers :
        /\ req[w].op = "get"
        /\ pc[w] = "close"
        /\ req[w].book_id < nextId
        /\ req[w].book_id \notin Ids(books)
        /\ result[w] = BookNotFound

\* C4: update and delete of an id that is not stored fail with NotFound and
\* change nothing; a delete of a stored id removes that row and only it.
C4_Step(w) ==
    /\ ((Leaves(w, "update_select") \/ Leaves(w, "delete_select")) /\ req[w].book_id \notin Ids(books)) =>
            /\ result'[w] = BookNotFound
            /\ pc'[w] = "close"
            /\ books' = books
    /\ Leaves(w, "close") => books' = books
    /\ Leaves(w, "delete_commit") =>
            /\ req[w].book_id = loaded[w][1].id
            /\ books' = Others(books, req[w].book_id)
            /\ result'[w].status = NoContent

C4_NotFoundAndDelete == [][\A w \in Workers : C4_Step(w)]_vars

\* one of two stored books has been deleted and the other is still there
C4_Witness ==
    \E w \in Workers :
        /\ req[w].op = "delete"
        /\ pc[w] = "close"
        /\ result[w].status = NoContent
        /\ nextId = 3
        /\ Len(books) = 1
        /\ books[1].id # req[w].book_id

\* C5: a successful update sets every field present in the request to the
\* supplied value, leaves every absent field, the id and created_at as they
\* were, and changes no other book.
C5_UpdateStep(w) ==
    (Leaves(w, "update_commit") /\ result'[w].status = OK) =>
        LET id == req[w].book_id
            before == BookById(books, id)[1]
            after == BookById(books', id)[1]
        IN /\ \A k \in req[w].body.present : after[k] = req[w].body.val[k]
           /\ \A k \in Fields \ req[w].body.present : after[k] = before[k]
           /\ after.id = before.id
           /\ after.created_at = before.created_at
           /\ Others(books', id) = Others(books, id)
           /\ result'[w].body = Some(after)

C5_UpdateFrame == [][\A w \in Workers : C5_UpdateStep(w)]_vars

\* C6: list(skip, limit) with skip, limit >= 0 succeeds and returns the
\* rows at positions skip+1 .. skip+limit of the table's order, as many as
\* there are: none on an empty table or when skip is the number of books,
\* all M for list(0, M). The result is fixed by the table and the two
\* arguments, so a second call with no change in between returns the same.
C6_ListStep(w) ==
    (Leaves(w, "list") /\ req[w].skip >= 0 /\ req[w].limit >= 0) =>
        LET got == result'[w].body
            rest == IF Len(books) > req[w].skip THEN Len(books) - req[w].skip ELSE 0
        IN /\ result'[w].status = OK
           /\ Len(got) = Min(req[w].limit, rest)
           /\ \A i \in 1..Len(got) : got[i] = books[req[w].skip + i]

C6_ListPage == [][\A w \in Workers : C6_ListStep(w)]_vars

\* two books were inserted and list(0, 2) has returned both
C6_Witness ==
    \E w \in Workers :
        /\ req[w].op = "list"
        /\ pc[w] = "close"
        /\ req[w].skip = 0 /\ req[w].limit = 2
        /\ Len(books) = 2
        /\ result[w].status = OK
        /\ result[w].body = books

\* C7: an update is not checked for a duplicate isbn: it goes on to its
\* commit whatever isbn it supplies; when the isbn it supplies is held by
\* another stored book it is never answered DuplicateKey and changes no
\* book, and the UPDATE statement that carries that isbn fails in the
\* store with an error the service does not handle.
C7_UpdateStep(w) ==
    LET b == req[w].body
        clash == /\ "isbn" \in b.present
                 /\ \E row \in Rows(books) : row.id # req[w].book_id /\ row.isbn = b.val.isbn
    IN /\ (Leaves(w, "update_select") /\ req[w].book_id \in Ids(books)) =>
            pc'[w] = "update_commit" /\ result'[w] = NoResult
       /\ (Leaves(w, "update_commit") /\ clash) =>
            /\ result'[w].status # DuplicateKey
            /\ books' = books
            /\ (b.val.isbn # loaded[w][1].isbn) => result'[w].status = StorageFailure
       /\ (req'[w].op = "update" /\ pc'[w] = "close") => result'[w].status # DuplicateKey

C7_UpdateDuplicateRaw == [][\A w \in Workers : C7_UpdateStep(w)]_vars

\* an update of one stored book to the isbn of the other has ended in a
\* store-level failure, both books as they were created
C7_Witness ==
    \E w \in Workers :
        /\ req[w].op = "update"
        /\ pc[w] = "close"
        /\ result[w] = UpdateIntegrityError
        /\ req[w].body.present = {"isbn"}
        /\ Len(books) = 2
        /\ \E row \in Rows(books) : row.id # req[w].book_id /\ row.isbn = req[w].body.val.isbn
        /\ \E row \in Rows(books) : row.id = req[w].book_id /\ row.isbn # req[w].body.val.isbn

\* C8: every request in flight has an open session of its own, shared with
\* no other request; the open sessions are exactly those of the requests in
\* flight; and every session that is opened is closed in the end, however
\* the service call ended.
C8_SessionsScoped ==
    /\ \A w \in Workers : (pc[w] # "idle") <=> (sess[w] # 0)
    /\ \A w, v \in Workers : (w # v /\ sess[w] # 0) => sess[w] # sess[v]
    /\ open = { sess[w] : w \in { v \in Workers : pc[v] # "idle" } }

C8_SessionClosed ==
    /\ []C8_SessionsScoped
    /\ \A s \in 1..MaxRequests : (s \in open) ~> (s \notin open)

\* a request whose commit failed in the store is about to end while
\* another request is at work in a session of its own; an earlier request
\* has ended and its session is closed
C8_Witness ==
    \E w, v \in Workers :
        /\ w # v
        /\ pc[w] = "close" /\ result[w].status = StorageFailure
        /\ pc[v] # "idle"
        /\ open = {sess[w], sess[v]}
        /\ Cardinality(open) = 2
        /\ nextSid = 4

\* C9: every stored isbn has exactly 13 characters, and a create or update
\* that supplies anything else as isbn has been refused by validation
\* before the service ran.
C9_IsbnThirteen ==
    /\ \A row \in Rows(books) : row.isbn # None /\ Len(row.isbn[1]) = IsbnLen
    /\ \A w \in Workers :
        (/\ req[w].op \in {"create", "update"}
         /\ "isbn" \in req[w].body.present
         /\ (req[w].body.val.isbn = None \/ Len(req[w].body.val.isbn[1]) # IsbnLen))
        => (pc[w] = "close" /\ result[w] = Unprocessable)

\* C10 as stated: every stored book has a non-empty title and author.
C10_NonEmpty ==
    \A row \in Rows(books) :
        /\ row.title # None /\ row.title # Some("")
        /\ row.author # None /\ row.author # Some("")

\* C10 as the code has it: every stored book has a title and an author that
\* are strings (not null), the empty string included.
C10_NotNull ==
    \A row \in Rows(books) : row.title # None /\ row.author # None

\* a book with an empty title is stored and an update that sets its title
\* to null has been refused by the store
C10_Witness ==
    \E w \in Workers :
        /\ req[w].op = "update"
        /\ pc[w] = "close"
        /\ result[w].status = StorageFailure
        /\ "title" \in req[w].body.present
        /\ req[w].body.val.title = None
        /\ \E row \in Rows(books) : row.id = req[w].book_id /\ row.title = Some("")

====
